---- MODULE Spec2Model ----
(***************************************************************************)
(* A model of sanskrit/schema.py: the declarative schema of Sanskrit       *)
(* roots, stems, forms and their associations.                              *)
(*                                                                          *)
(* Part 1 (AssocSpec): the class hierarchy of Prefix and Root, attribute    *)
(* lookup along the bases of a class, and the position-ordered lists        *)
(* prefix_assocs / mod_assocs that ordering_list('position') maintains.     *)
(***************************************************************************)
EXTENDS Integers, Sequences, FiniteSets, TLC

\* ------------------------------------------------------------------ bounds
\* Number of rows of table `root` in the ordered-association runs.
NumRoots == 5
\* Number of rows over both association tables together.
MaxAssocs == 2

\* ------------------------------------------------------- values and tables
\* An unset (NULL) Integer column.
None == -1

\* Tag.NOUN_PREFIX and Tag.VERB_PREFIX, the polymorphic identities of Prefix.
NOUN_PREFIX == 11
VERB_PREFIX == 12

\* The polymorphic identities of PrefixedRoot, ModifiedRoot and
\* PrefixedModifiedRoot on Root.discriminator.
PrefixedRootIdentity == 1
ModifiedRootIdentity == 2
PrefixedModifiedRootIdentity == 3

RootIds == 1..NumRoots

\* Rows of table `prefix`: id |-> pos_id.
PrefixIds == {1, 2, 3}
PrefixPosId(p) == IF p = 3 THEN NOUN_PREFIX ELSE VERB_PREFIX

\* Rows of table `modification`.
ModificationIds == {1, 2}

\* The discriminator column of each root row: two PrefixedModifiedRoots, one
\* PrefixedRoot, one ModifiedRoot, every further row a plain Root.
DiscriminatorOf(r) ==
  IF r \in {1, 2} THEN PrefixedModifiedRootIdentity
  ELSE IF r = 3 THEN PrefixedRootIdentity
  ELSE IF r = 4 THEN ModifiedRootIdentity
  ELSE None

\* -------------------------------------------------------- class hierarchy
Classes == {"SimpleBase", "Prefix", "VerbPrefix", "NounPrefix", "Root",
            "PrefixedRoot", "ModifiedRoot", "PrefixedModifiedRoot"}

\* The bases named in each class statement.
Bases(cls) ==
  CASE cls = "SimpleBase" -> {}
    [] cls = "Prefix" -> {"SimpleBase"}
    [] cls = "VerbPrefix" -> {"Prefix"}
    [] cls = "NounPrefix" -> {"Prefix"}
    [] cls = "Root" -> {"SimpleBase"}
    [] cls = "PrefixedRoot" -> {"Root"}
    [] cls = "ModifiedRoot" -> {"Root"}
    [] cls = "PrefixedModifiedRoot" -> {"PrefixedRoot", "ModifiedRoot"}

\* The mapped attributes each class body declares itself.
OwnAttrs(cls) ==
  CASE cls = "SimpleBase" -> {"id", "name"}
    [] cls = "Prefix" -> {"pos_id", "pos"}
    [] cls = "VerbPrefix" -> {}
    [] cls = "NounPrefix" -> {}
    [] cls = "Root" -> {"id", "basis_id", "discriminator", "basis",
                        "paradigms", "vclasses", "voices"}
    [] cls = "PrefixedRoot" -> {"prefix_assocs", "prefixes"}
    [] cls = "ModifiedRoot" -> {"mod_assocs", "modifications"}
    [] cls = "PrefixedModifiedRoot" -> {"mod_assocs", "modifications"}

\* Every class reached from cls along Bases, cls included.
RECURSIVE Ancestors(_)
Ancestors(cls) == {cls} \cup UNION {Ancestors(b) : b \in Bases(cls)}

\* A PrefixedModifiedRoot whose class statement named only ModifiedRoot.
AttrsNoPrefixedBase(cls) ==
  UNION {OwnAttrs(c) :
           c \in IF cls = "PrefixedModifiedRoot"
                 THEN Ancestors("ModifiedRoot") \cup {cls}
                 ELSE Ancestors(cls)}

\* The attributes an instance of cls has: its own and its bases'.
Attrs(cls) == UNION {OwnAttrs(c) : c \in Ancestors(cls)}

\* The attribute table of every class, as built once at import.
AttrsOf == [cls \in Classes |-> Attrs(cls)]

HasAttr(cls, attr) == attr \in AttrsOf[cls]

\* polymorphic_on: the class a row is loaded as.
RootClass(r) ==
  LET d == DiscriminatorOf(r) IN
  IF d = PrefixedRootIdentity THEN "PrefixedRoot"
  ELSE IF d = ModifiedRootIdentity THEN "ModifiedRoot"
  ELSE IF d = PrefixedModifiedRootIdentity THEN "PrefixedModifiedRoot"
  ELSE "Root"

PrefixClass(p) ==
  IF PrefixPosId(p) = VERB_PREFIX THEN "VerbPrefix"
  ELSE IF PrefixPosId(p) = NOUN_PREFIX THEN "NounPrefix"
  ELSE "Prefix"

RootClassOf == [r \in RootIds |-> RootClass(r)]

\* The rows a relationship(VerbPrefix) can hold.
VerbPrefixIds == {p \in PrefixIds : PrefixClass(p) = "VerbPrefix"}

\* ------------------------------------------------- association objects
\* RootPrefixAssociation(prefix): only the item is set, position stays unset.
RootPrefixAssociation(prefix) == [item |-> prefix, position |-> None]

\* RootModAssociation(modification).
RootModAssociation(modification) == [item |-> modification, position |-> None]

\* ------------------------------------------------------- ordering_list
\* The default ordering function of ordering_list: count from 0.
CountFrom0(index) == index

\* OrderingList._order_entity: leaves an entity that has a position alone
\* unless told to reorder.
OrderEntity(index, entity, reorder) ==
  IF entity.position # None /\ ~reorder
  THEN entity
  ELSE [entity EXCEPT !.position = CountFrom0(index)]

\* OrderingList.reorder: renumber every entity by its index in the list.
Reorder(lst) == [i \in 1..Len(lst) |-> OrderEntity(i - 1, lst[i], TRUE)]

\* OrderingList.append (reorder_on_append is False).
OLAppend(lst, entity) ==
  LET l2 == Append(lst, entity) IN
  [l2 EXCEPT ![Len(l2)] = OrderEntity(Len(l2) - 1, entity, FALSE)]

\* An insert that refuses an index past the end and leaves the list alone.
ListInsertStrict(lst, index, entity) ==
  IF index > Len(lst) THEN lst
  ELSE SubSeq(lst, 1, index) \o <<entity>> \o SubSeq(lst, index + 1, Len(lst))

\* list.insert for an index >= 0: an index past the end inserts at the end.
ListInsert(lst, index, entity) ==
  LET at == IF index > Len(lst) THEN Len(lst) ELSE index IN
  SubSeq(lst, 1, at) \o <<entity>> \o SubSeq(lst, at + 1, Len(lst))

\* An insert that forgets to renumber.
OLInsertNoReorder(lst, index, entity) == ListInsert(lst, index, entity)

\* OrderingList.insert: list.insert, then reorder.
OLInsert(lst, index, entity) == Reorder(ListInsert(lst, index, entity))

\* list.pop / del lst[index] for an index >= 0 raises IndexError past the end.
PopRaises(lst, index) == index >= Len(lst)

\* OrderingList.pop / __delitem__: remove, then reorder.
OLPop(lst, index) ==
  Reorder(SubSeq(lst, 1, index) \o SubSeq(lst, index + 2, Len(lst)))

\* -------------------------------------------------------------- state
VARIABLES
  prefix_assocs,  \* root id |-> the list PrefixedRoot.prefix_assocs holds
  mod_assocs,     \* root id |-> the list ModifiedRoot.mod_assocs holds
  result,         \* the last call and how it ended
  basis_id,       \* root id |-> Root.basis_id
  hop_limit,      \* the configured hop limit of ultimate_basis
  answer,         \* the last ultimate_basis call and what it returned
  roots,          \* the ids of the rows of table root
  verb_root_id,   \* verb id |-> Verb.root_id, over the rows of table verb
  vi_root_id,     \* id |-> VerbalIndeclinable.root_id, over the rows
  paradigm,       \* paradigm id |-> [root_id, default], over the rows
  fk_enforced,    \* whether the database enforces foreign keys
  gresult,        \* the last session call and how it ended
  report,         \* the last validation report
  published,      \* the published graph snapshot
  observed,       \* reader |-> the snapshot it read last
  stem,           \* stem id |-> [pos_id, gender_id], over the rows
  stem_read       \* the last relationship read off a stem

assocVars == <<prefix_assocs, mod_assocs, result>>
basisVars == <<basis_id, hop_limit, answer>>
graphVars == <<roots, verb_root_id, vi_root_id, paradigm, fk_enforced,
               gresult, report>>
publishVars == <<published, observed>>
stemVars == <<stem, stem_read>>
vars == <<assocVars, basisVars, graphVars, publishVars, stemVars>>
nonAssocVars == <<basisVars, graphVars, publishVars, stemVars>>
nonBasisVars == <<assocVars, graphVars, publishVars, stemVars>>
nonGraphVars == <<assocVars, basisVars, stemVars>>
nonStemVars == <<assocVars, basisVars, graphVars, publishVars>>

\* The indexes handed to insert and pop.
Positions == 0..MaxAssocs

\* The list attribute and the item view of each capability.
ListAttr(kind) == IF kind = "prefix" THEN "prefix_assocs" ELSE "mod_assocs"

ListOf(owner, kind) ==
  IF kind = "prefix" THEN prefix_assocs[owner] ELSE mod_assocs[owner]

Items(kind) == IF kind = "prefix" THEN VerbPrefixIds ELSE ModificationIds

NewAssoc(kind, item) ==
  IF kind = "prefix" THEN RootPrefixAssociation(item)
  ELSE RootModAssociation(item)

\* Rows of root_prefix_association and root_mod_association together.
AssocCount ==
  LET sum[i \in 0..NumRoots] ==
        IF i = 0 THEN 0
        ELSE sum[i - 1] + Len(prefix_assocs[i]) + Len(mod_assocs[i])
  IN sum[NumRoots]

\* A store into both lists of the owner at once (one shared container).
StoreShared(owner, kind, lst) ==
  /\ prefix_assocs' = [prefix_assocs EXCEPT ![owner] = lst]
  /\ mod_assocs' = [mod_assocs EXCEPT ![owner] = lst]

\* The owner's list of this kind becomes lst; every other list is kept.
Store(owner, kind, lst) ==
  IF kind = "prefix"
  THEN /\ prefix_assocs' = [prefix_assocs EXCEPT ![owner] = lst]
       /\ UNCHANGED mod_assocs
  ELSE /\ mod_assocs' = [mod_assocs EXCEPT ![owner] = lst]
       /\ UNCHANGED prefix_assocs

Call(op, owner, kind, position, outcome) ==
  [op |-> op, owner |-> owner, kind |-> kind, position |-> position,
   outcome |-> outcome]

AssocInit ==
  /\ prefix_assocs = [r \in RootIds |-> <<>>]
  /\ mod_assocs = [r \in RootIds |-> <<>>]
  /\ result = Call("none", None, "none", None, "ok")

\* ------------------------------------------------------------ Root.basis
\* Number of root rows in the basis runs.
NumBasisRoots == 4
\* A hop limit configured below the default.
SmallHopLimit == 2
\* The default hop limit of ultimate_basis.
DefaultHopLimit == 32

BasisRootIds == 1..NumBasisRoots

NoAnswer == [root |-> None, tag |-> "none", id |-> None]

BasisInit ==
  /\ basis_id = [r \in BasisRootIds |-> None]
  /\ hop_limit \in {SmallHopLimit, DefaultHopLimit}
  /\ answer = NoAnswer

\* A self-referential relationship declared without remote_side: the rows
\* that name r as their basis.
BasisWithoutRemoteSide(r) ==
  LET m == {b \in BasisRootIds : basis_id[b] = r} IN
  IF m = {} THEN None ELSE CHOOSE b \in m : TRUE

\* Root.basis = relationship('Root', remote_side=[id]): the row whose id is
\* this row's basis_id, None when there is none.
Basis(r) ==
  LET m == {b \in BasisRootIds : b = basis_id[r]} IN
  IF m = {} THEN None ELSE CHOOSE b \in m : TRUE

IsRoot(t) == [tag |-> "Root", id |-> t]
CyclicBasis == [tag |-> "CyclicBasis", id |-> None]
BasisChainTooLong == [tag |-> "BasisChainTooLong", id |-> None]

\* ultimate_basis: follow basis from cur with the ids seen so far and the
\* hops made. A hop that revisits an id fails with CyclicBasis; a hop past
\* the limit to an id not seen before fails with BasisChainTooLong.
RECURSIVE Walk(_, _, _, _)
Walk(cur, visited, hops, limit) ==
  LET next == Basis(cur) IN
  IF next = None THEN IsRoot(cur)
  ELSE IF next \in visited THEN CyclicBasis
  ELSE IF hops + 1 > limit THEN BasisChainTooLong
  ELSE Walk(next, visited \cup {next}, hops + 1, limit)

UltimateBasis(root, limit) == Walk(root, {root}, 0, limit)

\* root.basis = b (b may be None).
SetBasis(r, b) ==
  /\ basis_id' = [basis_id EXCEPT ![r] = b]
  /\ answer' = NoAnswer
  /\ UNCHANGED <<hop_limit, nonBasisVars>>

\* ultimate_basis(r).
AskUltimateBasis(r) ==
  /\ LET v == UltimateBasis(r, hop_limit) IN
     answer' = [root |-> r, tag |-> v.tag, id |-> v.id]
  /\ UNCHANGED <<basis_id, hop_limit, nonBasisVars>>

BasisNext ==
  \/ \E r \in BasisRootIds, b \in BasisRootIds \cup {None} : SetBasis(r, b)
  \/ \E r \in BasisRootIds : AskUltimateBasis(r)

\* owner.prefix_assocs.append(RootPrefixAssociation(item)), and the same on
\* mod_assocs; the attribute lookup fails on a class without the list.
AppendItem(owner, kind, item) ==
  /\ UNCHANGED nonAssocVars
  /\ IF ~HasAttr(RootClassOf[owner], ListAttr(kind))
     THEN /\ result' = Call("append", owner, kind, None, "AttributeError")
          /\ UNCHANGED <<prefix_assocs, mod_assocs>>
     ELSE /\ AssocCount < MaxAssocs
          /\ Store(owner, kind, OLAppend(ListOf(owner, kind), NewAssoc(kind, item)))
          /\ result' = Call("append", owner, kind, None, "ok")

\* owner.prefix_assocs.insert(position, RootPrefixAssociation(item)).
InsertAt(owner, kind, item, position) ==
  /\ UNCHANGED nonAssocVars
  /\ IF ~HasAttr(RootClassOf[owner], ListAttr(kind))
     THEN /\ result' = Call("insert_at", owner, kind, position, "AttributeError")
          /\ UNCHANGED <<prefix_assocs, mod_assocs>>
     ELSE /\ AssocCount < MaxAssocs
          /\ Store(owner, kind,
                   OLInsert(ListOf(owner, kind), position, NewAssoc(kind, item)))
          /\ result' = Call("insert_at", owner, kind, position, "ok")

\* owner.prefix_assocs.pop(position).
RemoveAt(owner, kind, position) ==
  /\ UNCHANGED nonAssocVars
  /\ IF ~HasAttr(RootClassOf[owner], ListAttr(kind))
     THEN /\ result' = Call("remove", owner, kind, position, "AttributeError")
          /\ UNCHANGED <<prefix_assocs, mod_assocs>>
     ELSE IF PopRaises(ListOf(owner, kind), position)
     THEN /\ result' = Call("remove", owner, kind, position, "IndexError")
          /\ UNCHANGED <<prefix_assocs, mod_assocs>>
     ELSE /\ Store(owner, kind, OLPop(ListOf(owner, kind), position))
          /\ result' = Call("remove", owner, kind, position, "ok")

Kinds == {"prefix", "mod"}

\* The attribute names read off prefix rows.
ProbedAttrs ==
  UNION {OwnAttrs(c) : c \in {"Prefix", "VerbPrefix", "NounPrefix", "PrefixedRoot"}}

\* getattr(prefix, attr): AttributeError unless the class has the attribute.
GetAttr(prefix, attr) ==
  /\ UNCHANGED nonAssocVars
  /\ result' = Call("getattr", prefix, attr, None,
                    IF HasAttr(PrefixClass(prefix), attr)
                    THEN "ok" ELSE "AttributeError")
  /\ UNCHANGED <<prefix_assocs, mod_assocs>>

AssocNext ==
  \/ \E o \in RootIds, k \in Kinds : \E it \in Items(k) : AppendItem(o, k, it)
  \/ \E o \in RootIds, k \in Kinds, p \in Positions :
       \E it \in Items(k) : InsertAt(o, k, it, p)
  \/ \E o \in RootIds, k \in Kinds, p \in Positions : RemoveAt(o, k, p)
  \/ \E p \in PrefixIds, a \in ProbedAttrs : GetAttr(p, a)

\* ------------------------------------------------- rows that refer to Root
\* Rows of table root, verb, verbalindeclinable, paradigm in the graph runs.
NumGraphRoots == 2
NumVerbs == 1
NumVerbalIndeclinables == 1
NumParadigms == 2
\* Concurrent readers of the published snapshot.
NumReaders == 2

GraphRootIds == 1..NumGraphRoots
VerbIds == 1..NumVerbs
VerbalIndeclinableIds == 1..NumVerbalIndeclinables
ParadigmIds == 1..NumParadigms
Readers == 1..NumReaders

\* The next primary key of a table: the least id not in use.
NextId(ids, used) == CHOOSE i \in ids \ used : \A j \in ids \ used : i <= j

\* f without the row k.
Without(f, k) == [x \in (DOMAIN f) \ {k} |-> f[x]]

Done(op, root, outcome, nulled) ==
  [op |-> op, root |-> root, outcome |-> outcome, nulled |-> nulled]

NotRun == [ran |-> FALSE, violations |-> {}]

\* The entity graph as it stands.
Graph ==
  [roots |-> roots, verb_root_id |-> verb_root_id, vi_root_id |-> vi_root_id,
   paradigm |-> paradigm]

\* A join of Root.paradigms on paradigm.id instead of paradigm.root_id.
ParadigmsById(par, r) == {p \in DOMAIN par : p = r}

\* Root.paradigms = relationship('Paradigm'): the rows whose root_id is r.
ParadigmsOf(par, r) == {p \in DOMAIN par : par[p].root_id = r}

\* Root.verbs, the backref of Verb.root: the rows whose root_id is r.
VerbsOf(r) == {v \in DOMAIN verb_root_id : verb_root_id[v] = r}

\* The rows of verbalindeclinable whose root_id is r; Root has no
\* relationship to them (VerbalIndeclinable.root has no backref).
VerbalIndeclinablesOf(r) == {i \in DOMAIN vi_root_id : vi_root_id[i] = r}

\* Deleting a Root de-associates the rows of Root.verbs (no delete cascade):
\* their root_id is set to NULL.
NullifyVerbs(r) ==
  [v \in DOMAIN verb_root_id |->
     IF verb_root_id[v] = r THEN None ELSE verb_root_id[v]]

\* The same for the rows of Root.paradigms.
NullifyParadigms(r) ==
  [p \in DOMAIN paradigm |->
     IF p \in ParadigmsOf(paradigm, r)
     THEN [paradigm[p] EXCEPT !.root_id = None] ELSE paradigm[p]]

\* validate: every violation of the graph g, not only the first. A
\* reference to a row that does not exist, and a root with more than one
\* default paradigm.
ViolationsOf(g) ==
  {[kind |-> "verb.root", id |-> v] :
     v \in {x \in DOMAIN g.verb_root_id :
              g.verb_root_id[x] # None /\ g.verb_root_id[x] \notin g.roots}}
  \cup
  {[kind |-> "verbalindeclinable.root", id |-> i] :
     i \in {x \in DOMAIN g.vi_root_id :
              g.vi_root_id[x] # None /\ g.vi_root_id[x] \notin g.roots}}
  \cup
  {[kind |-> "paradigm.root", id |-> p] :
     p \in {x \in DOMAIN g.paradigm :
              g.paradigm[x].root_id # None
                /\ g.paradigm[x].root_id \notin g.roots}}
  \cup
  {[kind |-> "default paradigm", id |-> r] :
     r \in {x \in g.roots :
              Cardinality({p \in ParadigmsOf(g.paradigm, x) :
                             g.paradigm[p].default}) > 1}}

GraphInit ==
  /\ roots = GraphRootIds
  /\ verb_root_id = <<>>
  /\ vi_root_id = <<>>
  /\ paradigm = <<>>
  /\ fk_enforced \in BOOLEAN
  /\ gresult = Done("none", None, "ok", {})
  /\ report = NotRun

\* Verb(root=r), added and flushed.
CreateVerb(r) ==
  /\ DOMAIN verb_root_id # VerbIds
  /\ verb_root_id' = (NextId(VerbIds, DOMAIN verb_root_id) :> r) @@ verb_root_id
  /\ gresult' = Done("create", None, "ok", {})
  /\ report' = NotRun
  /\ UNCHANGED <<roots, vi_root_id, paradigm, fk_enforced>>
  /\ UNCHANGED <<nonGraphVars, publishVars>>

\* session.delete(verb): nothing refers to a Verb.
DeleteVerb(v) ==
  /\ v \in DOMAIN verb_root_id
  /\ verb_root_id' = Without(verb_root_id, v)
  /\ gresult' = Done("delete", None, "ok", {})
  /\ report' = NotRun
  /\ UNCHANGED <<roots, vi_root_id, paradigm, fk_enforced>>
  /\ UNCHANGED <<nonGraphVars, publishVars>>

\* VerbalIndeclinable(root=r), added and flushed.
CreateVerbalIndeclinable(r) ==
  /\ DOMAIN vi_root_id # VerbalIndeclinableIds
  /\ vi_root_id' =
       (NextId(VerbalIndeclinableIds, DOMAIN vi_root_id) :> r) @@ vi_root_id
  /\ gresult' = Done("create", None, "ok", {})
  /\ report' = NotRun
  /\ UNCHANGED <<roots, verb_root_id, paradigm, fk_enforced>>
  /\ UNCHANGED <<nonGraphVars, publishVars>>

\* session.delete(verbal_indeclinable).
DeleteVerbalIndeclinable(i) ==
  /\ i \in DOMAIN vi_root_id
  /\ vi_root_id' = Without(vi_root_id, i)
  /\ gresult' = Done("delete", None, "ok", {})
  /\ report' = NotRun
  /\ UNCHANGED <<roots, verb_root_id, paradigm, fk_enforced>>
  /\ UNCHANGED <<nonGraphVars, publishVars>>

\* Paradigm(root=r, default=d), added and flushed.
CreateParadigm(r, d) ==
  /\ DOMAIN paradigm # ParadigmIds
  /\ paradigm' = (NextId(ParadigmIds, DOMAIN paradigm)
                    :> [root_id |-> r, default |-> d]) @@ paradigm
  /\ gresult' = Done("create", None, "ok", {})
  /\ report' = NotRun
  /\ UNCHANGED <<roots, verb_root_id, vi_root_id, fk_enforced>>
  /\ UNCHANGED <<nonGraphVars, publishVars>>

\* paradigm.default = d.
SetDefault(p, d) ==
  /\ p \in DOMAIN paradigm
  /\ paradigm' = [paradigm EXCEPT ![p].default = d]
  /\ gresult' = Done("update", None, "ok", {})
  /\ report' = NotRun
  /\ UNCHANGED <<roots, verb_root_id, vi_root_id, fk_enforced>>
  /\ UNCHANGED <<nonGraphVars, publishVars>>

\* session.delete(root), flushed: the rows of Root.verbs and Root.paradigms
\* get root_id NULL, then the root row is deleted. A row the ORM does not
\* manage (verbalindeclinable.root_id) still refers to it: a database that
\* enforces foreign keys refuses and the transaction is rolled back, one that
\* does not leaves the reference dangling.
DeleteRoot(r) ==
  /\ r \in roots
  /\ IF fk_enforced /\ VerbalIndeclinablesOf(r) # {}
     THEN /\ gresult' = Done("delete_root", r, "IntegrityError", {})
          /\ UNCHANGED <<roots, verb_root_id, paradigm, report>>
     ELSE /\ roots' = roots \ {r}
          /\ verb_root_id' = NullifyVerbs(r)
          /\ paradigm' = NullifyParadigms(r)
          /\ gresult' = Done("delete_root", r, "ok", VerbsOf(r))
          /\ report' = NotRun
  /\ UNCHANGED <<vi_root_id, fk_enforced>>
  /\ UNCHANGED <<nonGraphVars, publishVars>>

\* validate(entity_set).
Validate ==
  /\ report' = [ran |-> TRUE, violations |-> ViolationsOf(Graph)]
  /\ gresult' = Done("validate", None, "ok", {})
  /\ UNCHANGED <<roots, verb_root_id, vi_root_id, paradigm, fk_enforced>>
  /\ UNCHANGED <<nonGraphVars, publishVars>>

RootRefs == roots \cup {None}

DeleteNext ==
  \/ \E r \in RootRefs : CreateVerb(r)
  \/ \E v \in VerbIds : DeleteVerb(v)
  \/ \E r \in RootRefs : CreateVerbalIndeclinable(r)
  \/ \E i \in VerbalIndeclinableIds : DeleteVerbalIndeclinable(i)
  \/ \E r \in GraphRootIds : DeleteRoot(r)

ParadigmNext ==
  \/ \E r \in RootRefs, d \in BOOLEAN : CreateParadigm(r, d)
  \/ \E p \in ParadigmIds, d \in BOOLEAN : SetDefault(p, d)
  \/ \E r \in GraphRootIds : DeleteRoot(r)
  \/ Validate

\* ------------------------------------------------- copy-on-write publish
NothingRead == [seen |-> FALSE, graph |-> <<>>]

\* A swap that does not wait for a clean report.
SwapUnvalidated ==
  /\ published' = Graph
  /\ UNCHANGED <<observed, graphVars, nonGraphVars>>

\* The writer swaps the published reference to the snapshot it built, once
\* the report on that snapshot is empty.
Swap ==
  /\ report.ran /\ report.violations = {}
  /\ published' = Graph
  /\ UNCHANGED <<observed, graphVars, nonGraphVars>>

\* A reader takes the published reference.
Read(rd) ==
  /\ observed' = [observed EXCEPT ![rd] = [seen |-> TRUE, graph |-> published]]
  /\ UNCHANGED <<published, graphVars, nonGraphVars>>

\* The paradigms of root 1 as loaded, none of them the default.
LoadedParadigms == [p \in ParadigmIds |-> [root_id |-> 1, default |-> FALSE]]

PublishNext ==
  \/ \E p \in ParadigmIds, d \in BOOLEAN : SetDefault(p, d)
  \/ Validate
  \/ Swap
  \/ \E rd \in Readers : Read(rd)

\* ------------------------------------------------------------------ Stem
NumStems == 2
StemIds == 1..NumStems

\* Tag.NOUN, Tag.PRONOUN, Tag.ADJECTIVE, Tag.PARTICIPLE: the polymorphic
\* identities of NounStem, PronounStem, AdjectiveStem, ParticipleStem.
NOUN == 2
PRONOUN == 3
ADJECTIVE == 4
PARTICIPLE == 5
StemIdentities == {NOUN, PRONOUN, ADJECTIVE, PARTICIPLE}

\* Rows of table gender.
GenderIds == {1, 2, 3}

\* The columns of stem that are foreign keys to table t.
StemForeignKeys(t) ==
  IF t = "tag" THEN {"pos_id"}
  ELSE IF t = "gender" THEN {"gender_id"}
  ELSE {}

\* relationship(target) on Stem: the row of the target's table whose id is
\* the value of the stem's foreign key column to that table.
StemRelationship(s, t) ==
  LET col == CHOOSE c \in StemForeignKeys(t) : TRUE IN
  [table |-> t, id |-> stem[s][col]]

\* Stem.gender = relationship(Tag).
StemGender(s) == StemRelationship(s, "tag")

\* Stem.pos = relationship(Tag).
StemPos(s) == StemRelationship(s, "tag")

NoRead == [stem |-> None, attr |-> "none", table |-> "none", id |-> None]

StemInit ==
  /\ stem = <<>>
  /\ stem_read = NoRead

\* NounStem(gender_id=g) and the other stem classes, added and flushed.
CreateStem(identity, g) ==
  /\ DOMAIN stem # StemIds
  /\ stem' = (NextId(StemIds, DOMAIN stem)
                :> [pos_id |-> identity, gender_id |-> g]) @@ stem
  /\ stem_read' = NoRead
  /\ UNCHANGED nonStemVars

\* stem.gender_id = g.
SetGenderId(s, g) ==
  /\ s \in DOMAIN stem
  /\ stem' = [stem EXCEPT ![s].gender_id = g]
  /\ stem_read' = NoRead
  /\ UNCHANGED nonStemVars

\* stem.gender, read.
ReadGender(s) ==
  /\ s \in DOMAIN stem
  /\ LET g == StemGender(s) IN
     stem_read' = [stem |-> s, attr |-> "gender", table |-> g.table, id |-> g.id]
  /\ UNCHANGED <<stem, nonStemVars>>

\* stem.pos, read.
ReadPos(s) ==
  /\ s \in DOMAIN stem
  /\ LET t == StemPos(s) IN
     stem_read' = [stem |-> s, attr |-> "pos", table |-> t.table, id |-> t.id]
  /\ UNCHANGED <<stem, nonStemVars>>

StemNext ==
  \/ \E t \in StemIdentities, g \in GenderIds \cup {None} : CreateStem(t, g)
  \/ \E s \in StemIds, g \in GenderIds \cup {None} : SetGenderId(s, g)
  \/ \E s \in StemIds : ReadGender(s)
  \/ \E s \in StemIds : ReadPos(s)

AssocIdle ==
  /\ prefix_assocs = [r \in RootIds |-> <<>>]
  /\ mod_assocs = [r \in RootIds |-> <<>>]
  /\ result = Call("none", None, "none", None, "ok")

BasisIdle ==
  /\ basis_id = [r \in BasisRootIds |-> None]
  /\ hop_limit = DefaultHopLimit
  /\ answer = NoAnswer

GraphIdle ==
  /\ roots = GraphRootIds
  /\ verb_root_id = <<>>
  /\ vi_root_id = <<>>
  /\ paradigm = <<>>
  /\ fk_enforced = TRUE
  /\ gresult = Done("none", None, "ok", {})
  /\ report = NotRun

PublishIdle ==
  /\ published = Graph
  /\ observed = [rd \in Readers |-> NothingRead]

StemIdle ==
  /\ stem = <<>>
  /\ stem_read = NoRead

AssocSpecInit == AssocInit /\ BasisIdle /\ GraphIdle /\ PublishIdle /\ StemIdle

AssocSpec == AssocSpecInit /\ [][AssocNext]_vars

BasisSpecInit == BasisInit /\ AssocIdle /\ GraphIdle /\ PublishIdle /\ StemIdle

BasisSpec == BasisSpecInit /\ [][BasisNext]_vars

DeleteSpecInit == GraphInit /\ AssocIdle /\ BasisIdle /\ PublishIdle /\ StemIdle

DeleteSpec == DeleteSpecInit /\ [][DeleteNext]_vars

ParadigmSpecInit ==
  GraphInit /\ AssocIdle /\ BasisIdle /\ PublishIdle /\ StemIdle

ParadigmSpec == ParadigmSpecInit /\ [][ParadigmNext]_vars

PublishSpecInit ==
  /\ roots = GraphRootIds
  /\ verb_root_id = <<>>
  /\ vi_root_id = <<>>
  /\ paradigm = LoadedParadigms
  /\ fk_enforced = TRUE
  /\ gresult = Done("none", None, "ok", {})
  /\ report = NotRun
  /\ published = Graph
  /\ observed = [rd \in Readers |-> NothingRead]
  /\ AssocIdle /\ BasisIdle /\ StemIdle

PublishSpec == PublishSpecInit /\ [][PublishNext]_vars

StemSpecInit == StemInit /\ AssocIdle /\ BasisIdle /\ GraphIdle /\ PublishIdle

StemSpec == StemSpecInit /\ [][StemNext]_vars

\* --------------------------------------------------- claims on AssocSpec
ListOps == {"append", "insert_at", "remove"}

ListOfNext(owner, kind) ==
  IF kind = "prefix" THEN prefix_assocs'[owner] ELSE mod_assocs'[owner]

Capable(owner, kind) == HasAttr(RootClassOf[owner], ListAttr(kind))

\* C1: after any sequence of append, insert_at and remove calls, successful
\* or failed, the positions of each owner's N items are exactly 0..N-1 with
\* no gap and no duplicate, and the list holds them in increasing position
\* order.
C1_PositionsContiguous ==
  \A o \in RootIds, k \in Kinds :
    LET l == ListOf(o, k) IN
    /\ {l[i].position : i \in 1..Len(l)} = 0..(Len(l) - 1)
    /\ \A i, j \in 1..Len(l) : i < j => l[i].position < l[j].position

\* An insert at the front of a list that already held an item has happened.
C1_Witness ==
  /\ result.op = "insert_at" /\ result.outcome = "ok" /\ result.position = 0
  /\ Len(ListOf(result.owner, result.kind)) >= 2

\* C5: a call on the prefix list of an owner leaves every modification list
\* and the prefix list of every other owner unchanged, and a call on the
\* modification list leaves every prefix list and the modification list of
\* every other owner unchanged.
C5_ListsIndependent ==
  [][result'.op \in ListOps =>
      LET o == result'.owner IN
      /\ result'.kind = "prefix" =>
           /\ mod_assocs' = mod_assocs
           /\ \A r \in RootIds \ {o} : prefix_assocs'[r] = prefix_assocs[r]
      /\ result'.kind = "mod" =>
           /\ prefix_assocs' = prefix_assocs
           /\ \A r \in RootIds \ {o} : mod_assocs'[r] = mod_assocs[r]]_vars

\* A PrefixedModifiedRoot that holds a modification had its prefix list
\* changed by the last call.
C5_Witness ==
  /\ result.op \in ListOps /\ result.outcome = "ok" /\ result.kind = "prefix"
  /\ RootClassOf[result.owner] = "PrefixedModifiedRoot"
  /\ Len(mod_assocs[result.owner]) >= 1

\* C7 as stated: insert_at with a position greater than the current length
\* fails, remove with an absent position fails, and both leave every list
\* as it was.
C7_FailingCallsChangeNothing ==
  [][(result'.op \in {"insert_at", "remove"}
        /\ Capable(result'.owner, result'.kind)) =>
      LET c == result'
          l == ListOf(result'.owner, result'.kind) IN
      /\ (c.op = "insert_at" /\ c.position > Len(l)) =>
           (c.outcome # "ok" /\ UNCHANGED <<prefix_assocs, mod_assocs>>)
      /\ (c.op = "remove" /\ c.position >= Len(l)) =>
           (c.outcome # "ok" /\ UNCHANGED <<prefix_assocs, mod_assocs>>)]_vars

\* C7 amended: insert_at with a position greater than the current length
\* does not fail: the item goes last, at position = the previous length, the
\* items before it keep their positions and every other list is unchanged;
\* remove with an absent position fails with IndexError and leaves every
\* list as it was.
C7_PastEndInsertAppends ==
  [][(result'.op \in {"insert_at", "remove"}
        /\ Capable(result'.owner, result'.kind)) =>
      LET c == result'
          l == ListOf(result'.owner, result'.kind)
          n == ListOfNext(result'.owner, result'.kind) IN
      /\ (c.op = "insert_at" /\ c.position > Len(l)) =>
           /\ c.outcome = "ok"
           /\ Len(n) = Len(l) + 1
           /\ SubSeq(n, 1, Len(l)) = l
           /\ n[Len(n)].position = Len(l)
           /\ \A r \in RootIds, k \in Kinds :
                (r # c.owner \/ k # c.kind) => ListOfNext(r, k) = ListOf(r, k)
      /\ (c.op = "remove" /\ c.position >= Len(l)) =>
           (c.outcome = "IndexError" /\ UNCHANGED <<prefix_assocs, mod_assocs>>)]_vars

\* An insert at an index past the end of the list has just succeeded.
C7_Witness ==
  /\ result.op = "insert_at" /\ result.outcome = "ok"
  /\ result.position >= Len(ListOf(result.owner, result.kind))

\* The attributes VerbPrefix has and NounPrefix lacks.
VerbPrefixOnly == AttrsOf["VerbPrefix"] \ AttrsOf["NounPrefix"]

\* C8: a prefix-list call on a plain Root or ModifiedRoot and a
\* modification-list call on a plain Root or PrefixedRoot end in
\* AttributeError (the schema's WrongVariant), never in a value; prefix-list
\* calls get past the attribute lookup on PrefixedRoot and
\* PrefixedModifiedRoot, modification-list calls on ModifiedRoot and
\* PrefixedModifiedRoot; reading a VerbPrefix-only attribute of a NounPrefix
\* ends in AttributeError, and the shared attributes read on both.
C8_VariantAccess ==
  /\ result.op \in ListOps =>
       LET cls == RootClassOf[result.owner]
           wrong == result.outcome = "AttributeError" IN
       /\ (result.kind = "prefix" /\ cls \in {"Root", "ModifiedRoot"}) => wrong
       /\ (result.kind = "mod" /\ cls \in {"Root", "PrefixedRoot"}) => wrong
       /\ (result.kind = "prefix"
             /\ cls \in {"PrefixedRoot", "PrefixedModifiedRoot"}) => ~wrong
       /\ (result.kind = "mod"
             /\ cls \in {"ModifiedRoot", "PrefixedModifiedRoot"}) => ~wrong
  /\ result.op = "getattr" =>
       /\ (PrefixClass(result.owner) = "NounPrefix"
             /\ result.kind \in VerbPrefixOnly) =>
            result.outcome = "AttributeError"
       /\ result.kind \in {"pos_id", "pos"} => result.outcome = "ok"
       /\ result.kind \in {"prefix_assocs", "prefixes"} =>
            result.outcome = "AttributeError"

\* A prefix-list call on a plain Root has just ended in AttributeError.
C8_Witness ==
  /\ result.op \in ListOps /\ result.kind = "prefix"
  /\ RootClassOf[result.owner] = "Root"
  /\ result.outcome = "AttributeError"

\* --------------------------------------------------- claims on BasisSpec
\* The rows reached from r along basis_id, r included.
RECURSIVE ReachFrom(_)
ReachFrom(S) ==
  LET more == S \cup {basis_id[x] : x \in {y \in S : basis_id[y] # None}} IN
  IF more = S THEN S ELSE ReachFrom(more)

Reach(r) == ReachFrom({r})

\* The chain from r ends in a row without basis.
Terminates(r) == \E t \in Reach(r) : basis_id[t] = None

\* The number of basis references on the chain from r to its end.
ChainHops(r) == Cardinality(Reach(r)) - 1

Asked == answer.tag # "none"

\* C2: for a root whose basis chain is acyclic and no longer than the hop
\* limit, ultimate_basis returns the one root of the chain that has no
\* basis: the end of the chain, not the first basis, and the root itself when
\* it has no basis.
C2_UltimateBasisIsChainEnd ==
  (Asked /\ Terminates(answer.root) /\ ChainHops(answer.root) <= hop_limit) =>
    /\ answer.tag = "Root"
    /\ answer.id \in Reach(answer.root)
    /\ basis_id[answer.id] = None
    /\ (basis_id[answer.root] = None => answer.id = answer.root)

\* ultimate_basis of a root two basis references away from its chain end
\* returned that end.
C2_Witness ==
  /\ Asked /\ answer.tag = "Root"
  /\ basis_id[answer.root] # None
  /\ basis_id[basis_id[answer.root]] = answer.id
  /\ Cardinality({answer.root, basis_id[answer.root], answer.id}) = 3

\* C3 as stated: for every root whose basis chain revisits an id,
\* ultimate_basis returns CyclicBasis.
C3_CycleGivesCyclicBasis ==
  (Asked /\ ~Terminates(answer.root)) => answer.tag = "CyclicBasis"

\* C3 amended: for every root whose basis chain revisits an id,
\* ultimate_basis terminates and never returns a root: it returns CyclicBasis
\* when the revisiting hop is within the hop limit, and CyclicBasis or
\* BasisChainTooLong when the hop limit is passed first.
C3_CycleWithinLimitGivesCyclicBasis ==
  (Asked /\ ~Terminates(answer.root)) =>
    /\ answer.tag \in {"CyclicBasis", "BasisChainTooLong"}
    /\ Cardinality(Reach(answer.root)) <= hop_limit => answer.tag = "CyclicBasis"

\* ultimate_basis on a three-root cycle returned CyclicBasis.
C3_Witness ==
  /\ Asked /\ answer.tag = "CyclicBasis"
  /\ Cardinality(Reach(answer.root)) = 3
  /\ ~Terminates(answer.root)

\* -------------------------------------------------- claims on DeleteSpec
EntityRows == <<roots, verb_root_id, vi_root_id, paradigm>>

\* The rows that refer to the Root r.
ReferrersOf(r) ==
  VerbsOf(r) \cup VerbalIndeclinablesOf(r) \cup ParadigmsOf(paradigm, r)

\* C4: no row holds a non-null reference to a deleted Root. Delete of a Root
\* that a Verb or another row still refers to is rejected and leaves every
\* row as it was; delete of a Root that nothing refers to, such as after its
\* Verb was deleted, succeeds.
C4_NoReferenceToDeleted ==
  /\ [](/\ \A v \in DOMAIN verb_root_id :
             verb_root_id[v] # None => verb_root_id[v] \in roots
        /\ \A i \in DOMAIN vi_root_id :
             vi_root_id[i] # None => vi_root_id[i] \in roots
        /\ \A p \in DOMAIN paradigm :
             paradigm[p].root_id # None => paradigm[p].root_id \in roots)
  /\ [][gresult'.op = "delete_root" =>
          IF ReferrersOf(gresult'.root) # {}
          THEN gresult'.outcome # "ok" /\ UNCHANGED EntityRows
          ELSE gresult'.outcome = "ok" /\ roots' = roots \ {gresult'.root}]_vars

\* ------------------------------------------------ claims on ParadigmSpec
DefaultsOf(r) == {p \in DOMAIN paradigm :
                    paradigm[p].root_id = r /\ paradigm[p].default}

\* C6: a Root has at most one default Paradigm, or validate says so: a graph
\* in which some Root has two default Paradigms is never reported valid, and
\* the report names that Root.
C6_TwoDefaultsNeverValid ==
  report.ran =>
    \A r \in roots :
      Cardinality(DefaultsOf(r)) > 1 =>
        [kind |-> "default paradigm", id |-> r] \in report.violations

\* A second default Paradigm of one Root was accepted, and validate has run.
C6_Witness ==
  /\ report.ran
  /\ \E r \in roots : Cardinality(DefaultsOf(r)) > 1

\* ------------------------------------------------- claims on PublishSpec
\* C9: the published snapshot, and every snapshot a reader holds, is a whole
\* graph that passes validation; the published reference changes only to the
\* graph the writer has built, and only after validate reported nothing on it.
C9_OnlyValidatedSnapshots ==
  /\ [](/\ ViolationsOf(published) = {}
        /\ \A rd \in Readers :
             observed[rd].seen =>
               /\ ViolationsOf(observed[rd].graph) = {}
               /\ DOMAIN observed[rd].graph.paradigm = ParadigmIds)
  /\ [][published' # published =>
          /\ report.ran /\ report.violations = {}
          /\ ViolationsOf(Graph) = {}
          /\ published' = Graph]_vars

\* The writer has published, a reader holds that snapshot, and the writer's
\* graph has moved on to one that does not pass validation.
C9_Witness ==
  /\ published.paradigm # LoadedParadigms
  /\ \E rd \in Readers : observed[rd].seen /\ observed[rd].graph = published
  /\ ViolationsOf(Graph) # {}
  /\ report.ran

\* ---------------------------------------------------- claims on StemSpec
\* C10, as stated: a foreign reference resolves to an entity of the kind it
\* is declared to refer to. Stem.gender of a stem whose gender_id is set is
\* the Gender row with that id, not a Tag; every item of a prefix list is a
\* VerbPrefix.
C10_ReferencesResolveToKind ==
  /\ stem_read.attr = "gender" /\ stem[stem_read.stem].gender_id # None
       => /\ stem_read.table = "gender"
          /\ stem_read.id = stem[stem_read.stem].gender_id
  /\ \A r \in RootIds : \A i \in 1..Len(prefix_assocs[r]) :
       PrefixClass(prefix_assocs[r][i].item) = "VerbPrefix"


====
